---- MODULE Spec2Model ----
(***************************************************************************)
(* ImpactPools: the accounting state machine of the two Soroban contracts  *)
(*   contracts/pool_contract.rs        (the "position" variant)            *)
(*   contracts/impact_pool/src/lib.rs  (the "history" variant)             *)
(* One contract instance is deployed per behaviour; `variant` says which.  *)
(* A Soroban invocation that panics is rolled back by the host, and in     *)
(* both files every panic precedes every storage write, so a failing call  *)
(* is one step that changes nothing but the recorded outcome `last`.       *)
(* Arithmetic is i128; every amount of the model stays far below 2^127, so *)
(* no operation overflows within the bounds.                               *)
(* Spec runs one contract; SpecFlows runs pool_contract.rs and books every *)
(* deposit and withdraw transfer per user and asset; SpecPair sends each   *)
(* call to a pool_contract.rs contract and to a lib.rs contract.           *)
(***************************************************************************)
EXTENDS Integers, Sequences, FiniteSets, TLC

VARIABLES
    variant,     \* which source file is deployed: "position" or "history"
    instance,    \* env.storage().instance(): key -> value
    persistent,  \* env.storage().persistent(): UserPosition(Address) -> UserPosition
    custody,     \* the token contracts: asset -> balance held by this contract
    last,        \* the last invocation: entry point and outcome
    flows,       \* history variable: user -> asset -> tokens the user has paid
                 \* into custody minus tokens custody has paid the user
    mirror       \* a lib.rs contract driven by the same calls as the
                 \* pool_contract.rs one (SpecPair only)

vars == <<variant, instance, persistent, custody, last, flows, mirror>>

----------------------------------------------------------------------------
(* Bounds of the model *)

MaxAmount == 2      \* amounts passed to the entry points are in -1..MaxAmount
MaxDeposited == 2   \* cap on the sum of all positions' cumulative `deposited`
MaxAgg == 1         \* cap on |total_yield| and |total_donated|
MaxHist == 2        \* cap on the number of deposit-history entries, all users

(* Program constants *)

PctLimit == 100          \* pool_contract.rs:63
PctDivisor == 100        \* pool_contract.rs:180, lib.rs:173
DefaultYieldRate == 50   \* pool_contract.rs:80

Users == {"u1", "u2"}
Contract == "contract"          \* env.current_contract_address()
Charities == {"charity"}
Assets == {"XLM", "JUNK"}
Names == {"TEST"}
Amounts == (-1)..MaxAmount
DonationPcts == {50, 100, 101}  \* u32 arguments of initialize
Creators == {"u1"}

Variants == {"position", "history"}

----------------------------------------------------------------------------
(* Storage helpers *)

Has(store, key) == key \in DOMAIN store

Set(store, key, value) == (key :> value) @@ store

ZeroPosition == [deposited |-> 0, withdrawn |-> 0, yield_earned |-> 0]

(* i128 `/` truncates toward zero *)
RustDiv(a, b) == IF a >= 0 THEN a \div b ELSE -((-a) \div b)

(* token::Client::transfer(from, to, amount) panics on a negative amount and *)
(* on an insufficient balance of `from`. The model tracks the balances of    *)
(* this contract only; what any other holder owns is unknown to it, so a     *)
(* transfer may also fail for a reason of the token's own (`frozen`: the     *)
(* payer lacks the funds, the asset is frozen, ...).                          *)
TransferOk(t, from, amount, frozen) ==
    /\ ~frozen
    /\ amount >= 0
    /\ from = Contract => custody[t] >= amount

Transferred(t, from, to, amount) ==
    [custody EXCEPT ![t] = @ - (IF from = Contract THEN amount ELSE 0)
                               + (IF to = Contract THEN amount ELSE 0)]

Outcome(op, result) == [op |-> op, result |-> result]

----------------------------------------------------------------------------
(* pool_contract.rs *)

PoolInfo == instance["PoolInfo"]

get_user_position(u) ==
    IF Has(persistent, u) THEN persistent[u] ELSE ZeroPosition

get_user_balance(u) ==
    LET p == get_user_position(u)
    IN  p.deposited - p.withdrawn + p.yield_earned

RECURSIVE SumOver(_, _)
SumOver(S, f) ==
    IF S = {} THEN 0
    ELSE LET x == CHOOSE y \in S : TRUE
         IN  f[x] + SumOver(S \ {x}, f)

(* the cumulative deposits of all positions, which the model caps *)
EverDeposited == SumOver(Users, [u \in Users |-> get_user_position(u).deposited])

(* mutant: the withdrawals already made are not subtracted *)
available_balance_ignores_withdrawn(p) == p.deposited

(* the balance withdraw checks against *)
available_balance(p) == p.deposited - p.withdrawn

(* mutant: no check that the pool exists already *)
initialize_result_unguarded(pct) ==
    IF pct > PctLimit THEN "InvalidParameter" ELSE "ok"

initialize_result(pct) ==
    IF Has(instance, "PoolInfo") THEN "AlreadyInitialized"
    ELSE IF pct > PctLimit THEN "InvalidParameter"
    ELSE "ok"

initialize(name, charity, pct, creator, token_address) ==
    /\ variant = "position"
    /\ LET r == initialize_result(pct)
       IN  /\ last' = Outcome("initialize", r)
           /\ IF r = "ok"
              THEN instance' =
                     Set(Set(Set(instance, "PoolInfo",
                         [name |-> name, charity |-> charity,
                          donation_percentage |-> pct, creator |-> creator,
                          total_deposited |-> 0, total_yield |-> 0,
                          total_donated |-> 0, is_active |-> TRUE]),
                         "TotalUsers", 0), "YieldRate", DefaultYieldRate)
              ELSE UNCHANGED instance
    /\ UNCHANGED <<variant, persistent, custody>>

(* mutant: a paused pool still takes deposits *)
deposit_result_ignores_pause(u, amount, t, auth, frozen) ==
    IF ~auth THEN "Unauthorized"
    ELSE IF amount <= 0 THEN "InvalidAmount"
    ELSE IF ~Has(instance, "PoolInfo") THEN "NotInitialized"
    ELSE IF ~TransferOk(t, u, amount, frozen) THEN "TransferFailed"
    ELSE "ok"

deposit_result(u, amount, t, auth, frozen) ==
    IF ~auth THEN "Unauthorized"
    ELSE IF amount <= 0 THEN "InvalidAmount"
    ELSE IF ~Has(instance, "PoolInfo") THEN "NotInitialized"
    ELSE IF ~PoolInfo.is_active THEN "PoolPaused"
    ELSE IF ~TransferOk(t, u, amount, frozen) THEN "TransferFailed"
    ELSE "ok"

(* mutant: the pool total is not updated *)
deposit_forgets_total(u, amount, t, auth, frozen) ==
    /\ variant = "position"
    /\ LET r == deposit_result(u, amount, t, auth, frozen)
           p == get_user_position(u)
       IN  /\ last' = Outcome("deposit", r)
           /\ IF r = "ok"
              THEN /\ EverDeposited + amount <= MaxDeposited
                   /\ custody' = Transferred(t, u, Contract, amount)
                   /\ persistent' =
                        Set(persistent, u, [p EXCEPT !.deposited = @ + amount])
                   /\ UNCHANGED instance
              ELSE UNCHANGED <<custody, persistent, instance>>
    /\ UNCHANGED variant

(* mutant: the position is stored before the transfer, and stays when the *)
(* transfer fails                                                          *)
deposit_stores_before_transfer(u, amount, t, auth, frozen) ==
    /\ variant = "position"
    /\ LET r == deposit_result(u, amount, t, auth, frozen)
           p == get_user_position(u)
       IN  /\ last' = Outcome("deposit", r)
           /\ EverDeposited + amount <= MaxDeposited
           /\ IF r = "ok"
              THEN /\ custody' = Transferred(t, u, Contract, amount)
                   /\ persistent' =
                        Set(persistent, u, [p EXCEPT !.deposited = @ + amount])
                   /\ instance' =
                        [instance EXCEPT !["PoolInfo"].total_deposited = @ + amount]
              ELSE IF r = "TransferFailed"
              THEN /\ persistent' =
                        Set(persistent, u, [p EXCEPT !.deposited = @ + amount])
                   /\ UNCHANGED <<custody, instance>>
              ELSE UNCHANGED <<custody, persistent, instance>>
    /\ UNCHANGED variant

deposit(u, amount, t, auth, frozen) ==
    /\ variant = "position"
    /\ LET r == deposit_result(u, amount, t, auth, frozen)
           p == get_user_position(u)
       IN  /\ last' = Outcome("deposit", r)
           /\ IF r = "ok"
              THEN /\ EverDeposited + amount <= MaxDeposited
                   /\ custody' = Transferred(t, u, Contract, amount)
                   /\ persistent' =
                        Set(persistent, u, [p EXCEPT !.deposited = @ + amount])
                   /\ instance' =
                        [instance EXCEPT !["PoolInfo"].total_deposited = @ + amount]
              ELSE UNCHANGED <<custody, persistent, instance>>
    /\ UNCHANGED variant

(* mutant: the balance check is off by one *)
withdraw_result_off_by_one(u, amount, t, auth, frozen) ==
    IF ~auth THEN "Unauthorized"
    ELSE IF amount <= 0 THEN "InvalidAmount"
    ELSE IF ~Has(persistent, u) THEN "NoDeposits"
    ELSE IF amount >= available_balance(persistent[u]) THEN "InsufficientBalance"
    ELSE IF ~Has(instance, "PoolInfo") THEN "NotInitialized"
    ELSE IF ~TransferOk(t, Contract, amount, frozen) THEN "TransferFailed"
    ELSE "ok"

(* mutant: a paused pool refuses withdrawals as it refuses deposits *)
withdraw_result_checks_pause(u, amount, t, auth, frozen) ==
    IF ~auth THEN "Unauthorized"
    ELSE IF amount <= 0 THEN "InvalidAmount"
    ELSE IF ~Has(persistent, u) THEN "NoDeposits"
    ELSE IF amount > available_balance(persistent[u]) THEN "InsufficientBalance"
    ELSE IF ~Has(instance, "PoolInfo") THEN "NotInitialized"
    ELSE IF ~PoolInfo.is_active THEN "PoolPaused"
    ELSE IF ~TransferOk(t, Contract, amount, frozen) THEN "TransferFailed"
    ELSE "ok"

withdraw_result(u, amount, t, auth, frozen) ==
    IF ~auth THEN "Unauthorized"
    ELSE IF amount <= 0 THEN "InvalidAmount"
    ELSE IF ~Has(persistent, u) THEN "NoDeposits"
    ELSE IF amount > available_balance(persistent[u]) THEN "InsufficientBalance"
    ELSE IF ~Has(instance, "PoolInfo") THEN "NotInitialized"
    ELSE IF ~TransferOk(t, Contract, amount, frozen) THEN "TransferFailed"
    ELSE "ok"

(* mutant: the withdrawal is booked on every stored position *)
withdraw_debits_every_position(u, amount, t, auth, frozen) ==
    /\ variant = "position"
    /\ LET r == withdraw_result(u, amount, t, auth, frozen)
       IN  /\ last' = Outcome("withdraw", r)
           /\ IF r = "ok"
              THEN /\ custody' = Transferred(t, Contract, u, amount)
                   /\ persistent' =
                        [v \in DOMAIN persistent |->
                           [persistent[v] EXCEPT !.withdrawn = @ + amount]]
                   /\ instance' =
                        [instance EXCEPT !["PoolInfo"].total_deposited = @ - amount]
              ELSE UNCHANGED <<custody, persistent, instance>>
    /\ UNCHANGED variant

(* mutant: the pool total keeps the withdrawn amount *)
withdraw_keeps_total(u, amount, t, auth, frozen) ==
    /\ variant = "position"
    /\ LET r == withdraw_result(u, amount, t, auth, frozen)
       IN  /\ last' = Outcome("withdraw", r)
           /\ IF r = "ok"
              THEN /\ custody' = Transferred(t, Contract, u, amount)
                   /\ persistent' =
                        [persistent EXCEPT ![u].withdrawn = @ + amount]
                   /\ UNCHANGED instance
              ELSE UNCHANGED <<custody, persistent, instance>>
    /\ UNCHANGED variant

withdraw(u, amount, t, auth, frozen) ==
    /\ variant = "position"
    /\ LET r == withdraw_result(u, amount, t, auth, frozen)
       IN  /\ last' = Outcome("withdraw", r)
           /\ IF r = "ok"
              THEN /\ custody' = Transferred(t, Contract, u, amount)
                   /\ persistent' =
                        [persistent EXCEPT ![u].withdrawn = @ + amount]
                   /\ instance' =
                        [instance EXCEPT !["PoolInfo"].total_deposited = @ - amount]
              ELSE UNCHANGED <<custody, persistent, instance>>
    /\ UNCHANGED variant

donation_amount(yield_amount, pct) == RustDiv(yield_amount * pct, PctDivisor)

remaining_yield(yield_amount, pct) ==
    yield_amount - donation_amount(yield_amount, pct)

distribute_yield_result(admin, yield_amount, t, auth, frozen) ==
    IF ~auth THEN "Unauthorized"
    ELSE IF ~Has(instance, "PoolInfo") THEN "NotInitialized"
    ELSE LET d == donation_amount(yield_amount, PoolInfo.donation_percentage)
         IN  IF d > 0 /\ ~TransferOk(t, Contract, d, frozen)
             THEN "TransferFailed"
             ELSE "ok"

InAgg(x) == -MaxAgg <= x /\ x <= MaxAgg

(* mutant: the remaining yield is credited to every position *)
distribute_yield_credits_users(admin, yield_amount, t, auth, frozen) ==
    /\ variant = "position"
    /\ LET r == distribute_yield_result(admin, yield_amount, t, auth, frozen)
       IN  /\ last' = Outcome("distribute_yield", r)
           /\ IF r = "ok"
              THEN LET pct == PoolInfo.donation_percentage
                       d == donation_amount(yield_amount, pct)
                       rem == remaining_yield(yield_amount, pct)
                   IN  /\ InAgg(PoolInfo.total_yield + rem)
                       /\ InAgg(PoolInfo.total_donated + d)
                       /\ custody' = IF d > 0
                                    THEN Transferred(t, Contract, PoolInfo.charity, d)
                                    ELSE custody
                       /\ instance' =
                            [instance EXCEPT
                               !["PoolInfo"].total_yield = @ + rem,
                               !["PoolInfo"].total_donated = @ + d]
                       /\ persistent' =
                            [u \in DOMAIN persistent |->
                               [persistent[u] EXCEPT !.yield_earned = @ + rem]]
              ELSE UNCHANGED <<custody, instance, persistent>>
    /\ UNCHANGED variant

distribute_yield(admin, yield_amount, t, auth, frozen) ==
    /\ variant = "position"
    /\ LET r == distribute_yield_result(admin, yield_amount, t, auth, frozen)
       IN  /\ last' = Outcome("distribute_yield", r)
           /\ IF r = "ok"
              THEN LET pct == PoolInfo.donation_percentage
                       d == donation_amount(yield_amount, pct)
                       rem == remaining_yield(yield_amount, pct)
                   IN  /\ InAgg(PoolInfo.total_yield + rem)
                       /\ InAgg(PoolInfo.total_donated + d)
                       /\ custody' = IF d > 0
                                    THEN Transferred(t, Contract, PoolInfo.charity, d)
                                    ELSE custody
                       /\ instance' =
                            [instance EXCEPT
                               !["PoolInfo"].total_yield = @ + rem,
                               !["PoolInfo"].total_donated = @ + d]
              ELSE UNCHANGED <<custody, instance>>
    /\ UNCHANGED <<variant, persistent>>

(* mutant: any authorized caller may pause *)
pause_pool_result_any_admin(admin, auth) ==
    IF ~auth THEN "Unauthorized"
    ELSE IF ~Has(instance, "PoolInfo") THEN "NotInitialized"
    ELSE "ok"

pause_pool_result(admin, auth) ==
    IF ~auth THEN "Unauthorized"
    ELSE IF ~Has(instance, "PoolInfo") THEN "NotInitialized"
    ELSE IF admin # PoolInfo.creator THEN "Unauthorized"
    ELSE "ok"

pause_pool(admin, auth) ==
    /\ variant = "position"
    /\ LET r == pause_pool_result(admin, auth)
       IN  /\ last' = Outcome("pause_pool", r)
           /\ IF r = "ok"
              THEN instance' = [instance EXCEPT !["PoolInfo"].is_active = FALSE]
              ELSE UNCHANGED instance
    /\ UNCHANGED <<variant, persistent, custody>>

resume_pool_result(admin, auth) ==
    IF ~auth THEN "Unauthorized"
    ELSE IF ~Has(instance, "PoolInfo") THEN "NotInitialized"
    ELSE IF admin # PoolInfo.creator THEN "Unauthorized"
    ELSE "ok"

resume_pool(admin, auth) ==
    /\ variant = "position"
    /\ LET r == resume_pool_result(admin, auth)
       IN  /\ last' = Outcome("resume_pool", r)
           /\ IF r = "ok"
              THEN instance' = [instance EXCEPT !["PoolInfo"].is_active = TRUE]
              ELSE UNCHANGED instance
    /\ UNCHANGED <<variant, persistent, custody>>

----------------------------------------------------------------------------
(* impact_pool/src/lib.rs *)

HPoolInfo == instance["POOL_INFO"]

(* the Map<Address, Vec<UserDeposit>> under USER_DEPOSITS; an entry keeps   *)
(* its amount (its user is the key, its timestamp is never read)            *)
Deposits == IF Has(instance, "DEPOSITS") THEN instance["DEPOSITS"] ELSE <<>>

user_deposits(u) == IF Has(Deposits, u) THEN Deposits[u] ELSE <<>>

RECURSIVE SumAmounts(_)
SumAmounts(s) == IF s = <<>> THEN 0 ELSE Head(s) + SumAmounts(Tail(s))

h_get_user_balance(u) == SumAmounts(user_deposits(u))

(* the number of history entries of all users, which the model caps *)
HistEntries == SumOver(Users, [u \in Users |-> Len(user_deposits(u))])

h_initialize_result(pct) ==
    IF Has(instance, "POOL_INFO") THEN "AlreadyInitialized" ELSE "ok"

h_initialize(name, charity, pct, creator, asset) ==
    /\ variant = "history"
    /\ LET r == h_initialize_result(pct)
       IN  /\ last' = Outcome("initialize", r)
           /\ IF r = "ok"
              THEN instance' =
                     Set(Set(instance, "POOL_INFO",
                         [name |-> name, charity |-> charity,
                          donation_percentage |-> pct, creator |-> creator,
                          total_deposited |-> 0, total_donated |-> 0,
                          asset |-> asset]),
                         "TOTAL", 0)
              ELSE UNCHANGED instance
    /\ UNCHANGED <<variant, persistent, custody>>

h_deposit_result(u, amount, auth, frozen) ==
    IF ~auth THEN "Unauthorized"
    ELSE IF ~Has(instance, "POOL_INFO") THEN "NotInitialized"
    ELSE IF ~TransferOk(HPoolInfo.asset, u, amount, frozen) THEN "TransferFailed"
    ELSE "ok"

h_deposit(u, amount, auth, frozen) ==
    /\ variant = "history"
    /\ LET r == h_deposit_result(u, amount, auth, frozen)
       IN  /\ last' = Outcome("deposit", r)
           /\ IF r = "ok"
              THEN /\ HistEntries < MaxHist
                   /\ custody' = Transferred(HPoolInfo.asset, u, Contract, amount)
                   /\ instance' =
                        [Set(instance, "DEPOSITS",
                             Set(Deposits, u, Append(user_deposits(u), amount)))
                         EXCEPT !["POOL_INFO"].total_deposited = @ + amount]
              ELSE UNCHANGED <<custody, instance>>
    /\ UNCHANGED <<variant, persistent>>

h_withdraw_result(u, amount, auth, frozen) ==
    IF ~auth THEN "Unauthorized"
    ELSE IF h_get_user_balance(u) < amount THEN "InsufficientBalance"
    ELSE IF ~Has(instance, "POOL_INFO") THEN "NotInitialized"
    ELSE IF ~TransferOk(HPoolInfo.asset, Contract, amount, frozen)
         THEN "TransferFailed"
    ELSE "ok"

(* mutant: the withdrawal is recorded with the sign of a deposit *)
h_withdraw_appends_positive(u, amount, auth, frozen) ==
    /\ variant = "history"
    /\ LET r == h_withdraw_result(u, amount, auth, frozen)
       IN  /\ last' = Outcome("withdraw", r)
           /\ IF r = "ok"
              THEN /\ HistEntries < MaxHist
                   /\ custody' = Transferred(HPoolInfo.asset, Contract, u, amount)
                   /\ instance' =
                        Set(instance, "DEPOSITS",
                            Set(Deposits, u, Append(user_deposits(u), amount)))
              ELSE UNCHANGED <<custody, instance>>
    /\ UNCHANGED <<variant, persistent>>

h_withdraw(u, amount, auth, frozen) ==
    /\ variant = "history"
    /\ LET r == h_withdraw_result(u, amount, auth, frozen)
       IN  /\ last' = Outcome("withdraw", r)
           /\ IF r = "ok"
              THEN /\ HistEntries < MaxHist
                   /\ custody' = Transferred(HPoolInfo.asset, Contract, u, amount)
                   /\ instance' =
                        Set(instance, "DEPOSITS",
                            Set(Deposits, u, Append(user_deposits(u), -amount)))
              ELSE UNCHANGED <<custody, instance>>
    /\ UNCHANGED <<variant, persistent>>

process_yield_result(auth) ==
    IF ~auth THEN "Unauthorized"
    ELSE IF ~Has(instance, "POOL_INFO") THEN "NotInitialized"
    ELSE "ok"

process_yield(yield_amount, admin, auth) ==
    /\ variant = "history"
    /\ LET r == process_yield_result(auth)
       IN  /\ last' = Outcome("process_yield", r)
           /\ IF r = "ok"
              THEN LET d == donation_amount(yield_amount,
                                            HPoolInfo.donation_percentage)
                   IN  /\ InAgg(HPoolInfo.total_donated + d)
                       /\ instance' =
                            [instance EXCEPT !["POOL_INFO"].total_donated = @ + d]
              ELSE UNCHANGED instance
    /\ UNCHANGED <<variant, persistent, custody>>

----------------------------------------------------------------------------
(* Specification *)

NoFlows == [u \in Users |-> [t \in Assets |-> 0]]

NoMirror ==
    [initialized |-> FALSE, asset |-> "none", deposits |-> <<>>, custody |-> 0,
     result |-> "none"]

Init ==
    /\ variant \in Variants
    /\ instance = <<>>
    /\ persistent = <<>>
    /\ custody = [t \in Assets |-> 0]
    /\ last = Outcome("none", "none")
    /\ flows = NoFlows
    /\ mirror = NoMirror

(* one contract on its own: the history variable and the mirror stay put *)
Next ==
    \/ \E n \in Names, c \in Charities, pct \in DonationPcts, cr \in Creators,
          t \in Assets :
          initialize(n, c, pct, cr, t) /\ UNCHANGED <<flows, mirror>>
    \/ \E u \in Users, a \in Amounts, t \in Assets, auth \in BOOLEAN,
          frozen \in BOOLEAN :
          deposit(u, a, t, auth, frozen) /\ UNCHANGED <<flows, mirror>>
    \/ \E u \in Users, a \in Amounts, t \in Assets, auth \in BOOLEAN,
          frozen \in BOOLEAN :
          withdraw(u, a, t, auth, frozen) /\ UNCHANGED <<flows, mirror>>
    \/ \E u \in Users, a \in Amounts, t \in Assets, auth \in BOOLEAN,
          frozen \in BOOLEAN :
          distribute_yield(u, a, t, auth, frozen) /\ UNCHANGED <<flows, mirror>>
    \/ \E u \in Users, auth \in BOOLEAN :
          pause_pool(u, auth) /\ UNCHANGED <<flows, mirror>>
    \/ \E u \in Users, auth \in BOOLEAN :
          resume_pool(u, auth) /\ UNCHANGED <<flows, mirror>>
    \/ \E n \in Names, c \in Charities, pct \in DonationPcts, cr \in Creators,
          t \in Assets :
          h_initialize(n, c, pct, cr, t) /\ UNCHANGED <<flows, mirror>>
    \/ \E u \in Users, a \in Amounts, auth \in BOOLEAN, frozen \in BOOLEAN :
          h_deposit(u, a, auth, frozen) /\ UNCHANGED <<flows, mirror>>
    \/ \E u \in Users, a \in Amounts, auth \in BOOLEAN, frozen \in BOOLEAN :
          h_withdraw(u, a, auth, frozen) /\ UNCHANGED <<flows, mirror>>
    \/ \E u \in Users, a \in Amounts, auth \in BOOLEAN :
          process_yield(a, u, auth) /\ UNCHANGED <<flows, mirror>>

Spec == Init /\ [][Next]_vars

----------------------------------------------------------------------------
(* pool_contract.rs with the history variable: every token transfer of a   *)
(* successful deposit or withdraw is booked on the user and the asset of    *)
(* the call                                                                 *)

deposit_flows(u, amount, t, auth, frozen) ==
    /\ deposit(u, amount, t, auth, frozen)
    /\ flows' = IF last'.result = "ok"
                THEN [flows EXCEPT ![u][t] = @ + amount]
                ELSE flows
    /\ UNCHANGED mirror

withdraw_flows(u, amount, t, auth, frozen) ==
    /\ withdraw(u, amount, t, auth, frozen)
    /\ flows' = IF last'.result = "ok"
                THEN [flows EXCEPT ![u][t] = @ - amount]
                ELSE flows
    /\ UNCHANGED mirror

InitFlows == Init /\ variant = "position"

NextFlows ==
    \/ \E n \in Names, c \in Charities, pct \in DonationPcts, cr \in Creators,
          t \in Assets :
          initialize(n, c, pct, cr, t) /\ UNCHANGED <<flows, mirror>>
    \/ \E u \in Users, a \in Amounts, t \in Assets, auth \in BOOLEAN,
          frozen \in BOOLEAN : deposit_flows(u, a, t, auth, frozen)
    \/ \E u \in Users, a \in Amounts, t \in Assets, auth \in BOOLEAN,
          frozen \in BOOLEAN : withdraw_flows(u, a, t, auth, frozen)
    \/ \E u \in Users, a \in Amounts, t \in Assets, auth \in BOOLEAN,
          frozen \in BOOLEAN :
          distribute_yield(u, a, t, auth, frozen) /\ UNCHANGED <<flows, mirror>>
    \/ \E u \in Users, auth \in BOOLEAN :
          pause_pool(u, auth) /\ UNCHANGED <<flows, mirror>>
    \/ \E u \in Users, auth \in BOOLEAN :
          resume_pool(u, auth) /\ UNCHANGED <<flows, mirror>>

SpecFlows == InitFlows /\ [][NextFlows]_vars

----------------------------------------------------------------------------
(* Both contracts side by side: `mirror` is the storage and the token       *)
(* balance of a lib.rs contract, and each pair_ action sends one call to    *)
(* the pool_contract.rs contract and the same call to the lib.rs one.  The  *)
(* pool_contract.rs call names the asset the pools were initialized with,   *)
(* and the token gives both contracts the same answer (`frozen`).           *)

m_user_deposits(u) ==
    IF Has(mirror.deposits, u) THEN mirror.deposits[u] ELSE <<>>

m_get_user_balance(u) == SumAmounts(m_user_deposits(u))

m_entries == SumOver(Users, [u \in Users |-> Len(m_user_deposits(u))])

m_TransferOk(from, amount, frozen) ==
    /\ ~frozen
    /\ amount >= 0
    /\ from = Contract => mirror.custody >= amount

m_initialize(asset) ==
    IF mirror.initialized
    THEN [mirror EXCEPT !.result = "AlreadyInitialized"]
    ELSE [mirror EXCEPT !.initialized = TRUE, !.asset = asset, !.result = "ok"]

m_deposit_result(u, amount, auth, frozen) ==
    IF ~auth THEN "Unauthorized"
    ELSE IF ~mirror.initialized THEN "NotInitialized"
    ELSE IF ~m_TransferOk(u, amount, frozen) THEN "TransferFailed"
    ELSE "ok"

m_deposit(u, amount, auth, frozen) ==
    LET r == m_deposit_result(u, amount, auth, frozen)
    IN  IF r = "ok"
        THEN [mirror EXCEPT
                !.deposits = Set(@, u, Append(m_user_deposits(u), amount)),
                !.custody = @ + amount,
                !.result = r]
        ELSE [mirror EXCEPT !.result = r]

m_withdraw_result(u, amount, auth, frozen) ==
    IF ~auth THEN "Unauthorized"
    ELSE IF m_get_user_balance(u) < amount THEN "InsufficientBalance"
    ELSE IF ~mirror.initialized THEN "NotInitialized"
    ELSE IF ~m_TransferOk(Contract, amount, frozen) THEN "TransferFailed"
    ELSE "ok"

m_withdraw(u, amount, auth, frozen) ==
    LET r == m_withdraw_result(u, amount, auth, frozen)
    IN  IF r = "ok"
        THEN [mirror EXCEPT
                !.deposits = Set(@, u, Append(m_user_deposits(u), -amount)),
                !.custody = @ - amount,
                !.result = r]
        ELSE [mirror EXCEPT !.result = r]

pair_initialize(name, charity, pct, creator, asset) ==
    /\ initialize(name, charity, pct, creator, asset)
    /\ mirror' = m_initialize(asset)
    /\ UNCHANGED flows

pair_deposit(u, amount, auth, frozen) ==
    /\ mirror.initialized
    /\ m_deposit_result(u, amount, auth, frozen) = "ok" => m_entries < MaxHist
    /\ deposit(u, amount, mirror.asset, auth, frozen)
    /\ mirror' = m_deposit(u, amount, auth, frozen)
    /\ UNCHANGED flows

pair_withdraw(u, amount, auth, frozen) ==
    /\ mirror.initialized
    /\ m_withdraw_result(u, amount, auth, frozen) = "ok" => m_entries < MaxHist
    /\ withdraw(u, amount, mirror.asset, auth, frozen)
    /\ mirror' = m_withdraw(u, amount, auth, frozen)
    /\ UNCHANGED flows

InitPair == Init /\ variant = "position"

(* both pools are created with a percentage pool_contract.rs accepts *)
NextPair ==
    \/ \E n \in Names, c \in Charities, cr \in Creators, t \in Assets,
          pct \in {p \in DonationPcts : p <= PctLimit} :
          pair_initialize(n, c, pct, cr, t)
    \/ \E u \in Users, a \in Amounts, auth \in BOOLEAN, frozen \in BOOLEAN :
          pair_deposit(u, a, auth, frozen)
    \/ \E u \in Users, a \in Amounts, auth \in BOOLEAN, frozen \in BOOLEAN :
          pair_withdraw(u, a, auth, frozen)

SpecPair == InitPair /\ [][NextPair]_vars

----------------------------------------------------------------------------
(* Shorthands of the properties *)

Position == variant = "position"

Initialized == Has(instance, "PoolInfo")

Storage == <<instance, persistent>>   \* PoolInfo and every UserPosition

Did(op, result) == last.op = op /\ last.result = result

----------------------------------------------------------------------------
(* C1: withdraw(u, a) succeeds iff a <= available_balance(u); on success    *)
(* withdrawn grows by a and get_user_balance(u) shrinks by a; on failure    *)
(* nothing changes and the error is InsufficientBalance.                    *)

(* C1 as stated: of an authorized call whose transfer the token accepts *)
C1_AsStated ==
    (Position /\ Initialized) =>
        \A u \in Users, a \in Amounts, t \in Assets :
            LET r == withdraw_result(u, a, t, TRUE, FALSE)
            IN  /\ (r = "ok") <=> (a <= get_user_balance(u))
                /\ (r # "ok") => (r = "InsufficientBalance")

C1_Outcome ==
    Position =>
        \A u \in Users, a \in Amounts, t \in Assets,
           auth \in BOOLEAN, frozen \in BOOLEAN :
            LET r == withdraw_result(u, a, t, auth, frozen)
                checked == auth /\ a > 0 /\ Has(persistent, u)
            IN  /\ (r = "ok") <=> /\ checked
                                   /\ a <= get_user_balance(u)
                                   /\ ~frozen
                                   /\ custody[t] >= a
                /\ (r = "InsufficientBalance") <=>
                        (checked /\ a > get_user_balance(u))
                /\ (r = "Unauthorized") <=> ~auth
                /\ (r = "InvalidAmount") <=> (auth /\ a <= 0)
                /\ (r = "NoDeposits") <=>
                        (auth /\ a > 0 /\ ~Has(persistent, u))
                /\ (r = "TransferFailed") <=>
                        /\ checked
                        /\ a <= get_user_balance(u)
                        /\ (frozen \/ custody[t] < a)

C1_Step ==
    (Position /\ last'.op = "withdraw") =>
        IF last'.result = "ok"
        THEN \A u \in Users, a \in Amounts, t \in Assets :
                withdraw(u, a, t, TRUE, FALSE) =>
                    /\ 0 < a /\ a <= get_user_balance(u)
                    /\ get_user_position(u)'.withdrawn =
                           get_user_position(u).withdrawn + a
                    /\ get_user_balance(u)' = get_user_balance(u) - a
        ELSE UNCHANGED Storage

(* C1, amended: withdraw succeeds iff the caller is authorized, a > 0, u   *)
(* has a position, a <= available_balance(u) and the transfer succeeds; a  *)
(* success moves exactly a; a failure changes nothing and is               *)
(* InsufficientBalance exactly when a > available_balance(u) was reached.  *)
C1_Amended == []C1_Outcome /\ [][C1_Step]_vars

C1_Witness ==
    /\ Position /\ Did("withdraw", "ok")
    /\ \E u \in Users : get_user_position(u).withdrawn > 0
                         /\ get_user_balance(u) > 0

----------------------------------------------------------------------------
(* C2: every successful deposit(u, a) has a > 0, raises position(u).deposited, *)
(* pool.total_deposited and get_user_balance(u) by exactly a, and creates   *)
(* the position from zero fields when u had none.                           *)
C2_Step ==
    (Position /\ last'.op = "deposit" /\ last'.result = "ok") =>
        \A u \in Users, a \in Amounts, t \in Assets :
            deposit(u, a, t, TRUE, FALSE) =>
                /\ a > 0
                /\ Has(persistent', u)
                /\ persistent'[u].deposited = get_user_position(u).deposited + a
                /\ PoolInfo'.total_deposited = PoolInfo.total_deposited + a
                /\ get_user_balance(u)' = get_user_balance(u) + a
                /\ ~Has(persistent, u) =>
                       persistent'[u] = [deposited |-> a, withdrawn |-> 0,
                                         yield_earned |-> 0]

(* C2: a successful deposit(u, a) adds exactly a to deposited, to          *)
(* total_deposited and to get_user_balance(u).                             *)
C2_Deposit == [][C2_Step]_vars

(* a first deposit has just created a position *)
C2_Witness ==
    /\ Position /\ Did("deposit", "ok")
    /\ \E u \in Users : /\ Has(persistent, u)
                        /\ persistent[u].deposited = PoolInfo.total_deposited
                        /\ persistent[u].deposited > 0

----------------------------------------------------------------------------
(* C3: in every reachable state of the position variant every position has *)
(* withdrawn <= deposited + yield_earned.                                   *)
C3_NonNegativeBalance ==
    Position =>
        \A u \in DOMAIN persistent :
            persistent[u].withdrawn <=
                persistent[u].deposited + persistent[u].yield_earned

(* a user has withdrawn everything they deposited *)
C3_Witness ==
    /\ Position /\ Did("withdraw", "ok")
    /\ \E u \in DOMAIN persistent :
          /\ persistent[u].withdrawn > 0
          /\ persistent[u].withdrawn =
                persistent[u].deposited + persistent[u].yield_earned

----------------------------------------------------------------------------
(* C4: an operation that fails, at whichever step (authorization, a         *)
(* parameter or balance check, the asset transfer), leaves PoolInfo and     *)
(* every UserPosition exactly as they were.                                 *)
C4_Step ==
    (last'.op # "none" /\ last'.result # "ok") =>
        UNCHANGED <<instance, persistent, custody>>

(* C4: a failed operation changes neither storage nor custody *)
C4_Atomic == [][C4_Step]_vars

(* a withdrawal whose transfer failed, with deposits in the pool *)
C4_Witness ==
    /\ Position /\ Did("withdraw", "TransferFailed")
    /\ PoolInfo.total_deposited > 0

----------------------------------------------------------------------------
(* C5: once the pool exists, every initialize call, whatever its arguments, *)
(* fails with AlreadyInitialized and changes nothing (both variants).       *)
C5_Step ==
    (last'.op = "initialize"
        /\ (Has(instance, "PoolInfo") \/ Has(instance, "POOL_INFO"))) =>
        /\ last'.result = "AlreadyInitialized"
        /\ UNCHANGED <<instance, persistent, custody>>

C5_Outcome ==
    /\ Has(instance, "PoolInfo") =>
          \A pct \in DonationPcts : initialize_result(pct) = "AlreadyInitialized"
    /\ Has(instance, "POOL_INFO") =>
          \A pct \in DonationPcts : h_initialize_result(pct) = "AlreadyInitialized"

(* C5: initialize on an existing pool is AlreadyInitialized, no change *)
C5_ExactlyOnce == []C5_Outcome /\ [][C5_Step]_vars

(* a second initialize was refused after deposits and a pause *)
C5_Witness ==
    /\ Position /\ Did("initialize", "AlreadyInitialized")
    /\ persistent # <<>>
    /\ ~PoolInfo.is_active

----------------------------------------------------------------------------
(* C6: in both variants a stored PoolInfo has donation_percentage in        *)
(* [0, 100]: initialize with more than 100 creates no PoolInfo.             *)
C6_AsStated ==
    /\ Has(instance, "PoolInfo") =>
          (0 <= PoolInfo.donation_percentage
              /\ PoolInfo.donation_percentage <= 100)
    /\ Has(instance, "POOL_INFO") =>
          (0 <= HPoolInfo.donation_percentage
              /\ HPoolInfo.donation_percentage <= 100)

----------------------------------------------------------------------------
(* C7: every successful distribute_yield(admin, Y) on a pool of percentage  *)
(* p adds donation = floor(Y*p/100) to total_donated and remaining =        *)
(* Y - donation to total_yield, for every Y of the inputs, negative ones    *)
(* included.                                                                *)
C7_Step ==
    (Position /\ last'.op = "distribute_yield" /\ last'.result = "ok") =>
        \A admin \in Users, Y \in Amounts, t \in Assets :
            distribute_yield(admin, Y, t, TRUE, FALSE) =>
                LET p == PoolInfo.donation_percentage
                    donation == (Y * p) \div 100
                    remaining == Y - donation
                IN  /\ donation + remaining = Y
                    /\ PoolInfo'.total_donated = PoolInfo.total_donated + donation
                    /\ PoolInfo'.total_yield = PoolInfo.total_yield + remaining

(* C7: distribute_yield splits Y into floor(Y*p/100) and the rest *)
C7_AsStated == [][C7_Step]_vars

----------------------------------------------------------------------------
(* C8: total_deposited, total_yield and total_donated are never negative in *)
(* the position variant.                                                    *)
C8_AsStated ==
    (Position /\ Initialized) =>
        /\ PoolInfo.total_deposited >= 0
        /\ PoolInfo.total_yield >= 0
        /\ PoolInfo.total_donated >= 0

----------------------------------------------------------------------------
(* C9: while the pool is paused every deposit fails with PoolPaused and     *)
(* changes nothing; once resumed, a deposit with a > 0 and a succeeding     *)
(* transfer succeeds again.                                                 *)

(* C9 as stated, of the authorized calls: every one of them at a paused     *)
(* pool ends in PoolPaused                                                  *)
C9_StepAsStated ==
    (Position /\ Initialized /\ ~PoolInfo.is_active /\ last'.op = "deposit") =>
        \A u \in Users, a \in Amounts, t \in Assets, frozen \in BOOLEAN :
            deposit(u, a, t, TRUE, frozen) =>
                /\ last'.result = "PoolPaused"
                /\ UNCHANGED Storage

(* C9 as stated: a deposit at a paused pool fails with PoolPaused *)
C9_AsStated == [][C9_StepAsStated]_vars

C9_Outcome ==
    (Position /\ Initialized) =>
        \A u \in Users, a \in Amounts, t \in Assets,
           auth \in BOOLEAN, frozen \in BOOLEAN :
            LET r == deposit_result(u, a, t, auth, frozen)
            IN  IF PoolInfo.is_active
                THEN (auth /\ a > 0 /\ ~frozen) => r = "ok"
                ELSE /\ r # "ok"
                     /\ (r = "PoolPaused") <=> (auth /\ a > 0)
                     /\ (r = "InvalidAmount") <=> (auth /\ a <= 0)
                     /\ (r = "Unauthorized") <=> ~auth

C9_Step ==
    Position =>
        /\ (last'.op = "pause_pool" /\ last'.result = "ok") =>
               ~PoolInfo'.is_active
        /\ (last'.op = "resume_pool" /\ last'.result = "ok") =>
               PoolInfo'.is_active
        /\ (Initialized /\ last'.op \notin {"pause_pool", "resume_pool"}) =>
               PoolInfo'.is_active = PoolInfo.is_active
        /\ (Initialized /\ ~PoolInfo.is_active /\ last'.op = "deposit") =>
               /\ last'.result \in {"PoolPaused", "InvalidAmount", "Unauthorized"}
               /\ UNCHANGED <<instance, persistent, custody>>
        /\ (Initialized /\ PoolInfo.is_active /\ last'.op = "deposit") =>
               last'.result \in {"ok", "TransferFailed", "InvalidAmount",
                                 "Unauthorized"}

(* C9, amended: at a paused pool every deposit fails and changes nothing,  *)
(* with PoolPaused when authorized and a > 0, InvalidAmount when           *)
(* authorized and a <= 0, Unauthorized otherwise; at an active pool an     *)
(* authorized deposit with a > 0 and a succeeding transfer succeeds.       *)
C9_Amended == []C9_Outcome /\ [][C9_Step]_vars

(* a deposit was refused at a paused pool that holds deposits *)
C9_Witness ==
    /\ Position /\ Did("deposit", "PoolPaused")
    /\ PoolInfo.total_deposited > 0

----------------------------------------------------------------------------
(* C10: is_active changes only in a successful pause_pool or resume_pool    *)
(* step of the creator; pause_pool(x) and resume_pool(x) with x # creator   *)
(* fail with Unauthorized and leave is_active as it was.                    *)
C10_Outcome ==
    (Position /\ Initialized) =>
        \A x \in Users, auth \in BOOLEAN :
            /\ x # PoolInfo.creator =>
                  /\ pause_pool_result(x, auth) = "Unauthorized"
                  /\ resume_pool_result(x, auth) = "Unauthorized"
            /\ (x = PoolInfo.creator /\ auth) =>
                  /\ pause_pool_result(x, auth) = "ok"
                  /\ resume_pool_result(x, auth) = "ok"

C10_Step ==
    (Position /\ Initialized) =>
        /\ PoolInfo'.is_active # PoolInfo.is_active =>
              /\ last'.op \in {"pause_pool", "resume_pool"}
              /\ last'.result = "ok"
              /\ \A x \in Users, auth \in BOOLEAN :
                    (pause_pool(x, auth) \/ resume_pool(x, auth)) =>
                        (x = PoolInfo.creator /\ auth)
        /\ last'.result # "ok" => PoolInfo'.is_active = PoolInfo.is_active

(* C10: only the creator's successful pause_pool or resume_pool changes    *)
(* is_active; a non-creator gets Unauthorized.                             *)
C10_CreatorOnly == []C10_Outcome /\ [][C10_Step]_vars

(* a resume was refused and the pool is still paused *)
C10_Witness ==
    /\ Position /\ Initialized /\ Did("resume_pool", "Unauthorized")
    /\ ~PoolInfo.is_active

----------------------------------------------------------------------------
(* C11: distribute_yield is creator-only: called by an authorized admin     *)
(* that is not pool.creator it fails with Unauthorized, makes no transfer   *)
(* and leaves total_yield and total_donated unchanged.                      *)
C11_Step ==
    (Position /\ Initialized /\ last'.op = "distribute_yield") =>
        \A admin \in Users, y \in Amounts, t \in Assets, frozen \in BOOLEAN :
            (admin # PoolInfo.creator /\ y >= 0
                /\ distribute_yield(admin, y, t, TRUE, frozen)) =>
                    /\ last'.result = "Unauthorized"
                    /\ custody' = custody
                    /\ PoolInfo'.total_yield = PoolInfo.total_yield
                    /\ PoolInfo'.total_donated = PoolInfo.total_donated

C11_AsStated == [][C11_Step]_vars

----------------------------------------------------------------------------
(* C12: distribute_yield never updates a UserPosition and no operation      *)
(* writes yield_earned: in every reachable state every position has         *)
(* yield_earned = 0, so get_user_balance(u) = deposited - withdrawn, the    *)
(* available balance that withdraw checks.                                  *)
C12_Outcome ==
    Position =>
        \A u \in Users :
            /\ get_user_position(u).yield_earned = 0
            /\ get_user_balance(u) =
                 get_user_position(u).deposited - get_user_position(u).withdrawn
            /\ get_user_balance(u) = available_balance(get_user_position(u))

C12_Step ==
    (Position /\ last'.op = "distribute_yield") => persistent' = persistent

C12_NoYieldCredit == []C12_Outcome /\ [][C12_Step]_vars

C12_Witness ==
    /\ Position /\ Initialized
    /\ Did("distribute_yield", "ok")
    /\ PoolInfo.total_yield > 0
    /\ \E u \in Users : Has(persistent, u) /\ get_user_balance(u) > 0

----------------------------------------------------------------------------
(* C14: in impact_pool/src/lib.rs the balance is the sum of the signed      *)
(* history: a successful deposit(u, a) appends +a and a successful          *)
(* withdraw(u, a) appends -a to u's own history, so get_user_balance(u)     *)
(* moves by exactly +a and -a, no other step moves any balance, and a user  *)
(* with no history has balance 0.                                           *)
History == variant = "history"

C14_Outcome ==
    History =>
        \A u \in Users :
            ~Has(Deposits, u) => h_get_user_balance(u) = 0

C14_Step ==
    History =>
        /\ (last'.op = "deposit" /\ last'.result = "ok") =>
              \A u \in Users, a \in Amounts :
                  h_deposit(u, a, TRUE, FALSE) =>
                      /\ user_deposits(u)' = Append(user_deposits(u), a)
                      /\ h_get_user_balance(u)' = h_get_user_balance(u) + a
                      /\ \A v \in Users \ {u} :
                            user_deposits(v)' = user_deposits(v)
        /\ (last'.op = "withdraw" /\ last'.result = "ok") =>
              \A u \in Users, a \in Amounts :
                  h_withdraw(u, a, TRUE, FALSE) =>
                      /\ user_deposits(u)' = Append(user_deposits(u), -a)
                      /\ h_get_user_balance(u)' = h_get_user_balance(u) - a
                      /\ \A v \in Users \ {u} :
                            user_deposits(v)' = user_deposits(v)
        /\ ~(last'.op \in {"deposit", "withdraw"} /\ last'.result = "ok") =>
              \A u \in Users : user_deposits(u)' = user_deposits(u)

C14_BalanceIsSignedSum == []C14_Outcome /\ [][C14_Step]_vars

C14_Witness ==
    /\ History
    /\ Did("withdraw", "ok")
    /\ \E u \in Users : user_deposits(u) = <<2, -1>> /\ h_get_user_balance(u) = 1

----------------------------------------------------------------------------
(* C15: in both variants an authorized deposit(u, a) or withdraw(u, a) with *)
(* a <= 0 fails with InvalidAmount and leaves storage and custody           *)
(* unchanged.                                                               *)
C15_Step ==
    /\ (Position /\ Initialized /\ last'.op \in {"deposit", "withdraw"}) =>
          \A u \in Users, a \in Amounts, t \in Assets :
              (a <= 0 /\ (deposit(u, a, t, TRUE, FALSE)
                            \/ withdraw(u, a, t, TRUE, FALSE))) =>
                  /\ last'.result = "InvalidAmount"
                  /\ UNCHANGED <<Storage, custody>>
    /\ (History /\ Has(instance, "POOL_INFO")
          /\ last'.op \in {"deposit", "withdraw"}) =>
          \A u \in Users, a \in Amounts :
              (a <= 0 /\ (h_deposit(u, a, TRUE, FALSE)
                            \/ h_withdraw(u, a, TRUE, FALSE))) =>
                  /\ last'.result = "InvalidAmount"
                  /\ UNCHANGED <<Storage, custody>>

C15_AsStated == [][C15_Step]_vars

----------------------------------------------------------------------------
(* C16: a UserPosition is touched only by the operations that name its      *)
(* user: deposit(u, ..) and withdraw(u, ..), whether they succeed or fail,  *)
(* leave the position of every v # u as it was, and initialize,             *)
(* distribute_yield, pause_pool and resume_pool leave every position as it  *)
(* was.                                                                     *)
C16_Step ==
    Position =>
        \/ persistent' = persistent
        \/ /\ last'.op \in {"deposit", "withdraw"}
           /\ \A u \in Users, a \in Amounts, t \in Assets,
                 auth \in BOOLEAN, frozen \in BOOLEAN :
                 (deposit(u, a, t, auth, frozen)
                     \/ withdraw(u, a, t, auth, frozen)) =>
                     \A v \in Users \ {u} :
                         /\ Has(persistent', v) <=> Has(persistent, v)
                         /\ get_user_position(v)' = get_user_position(v)

C16_Frame == [][C16_Step]_vars

C16_Witness ==
    /\ Position
    /\ last.op \in {"deposit", "withdraw"} /\ last.result = "ok"
    /\ \A u \in Users : Has(persistent, u)
    /\ \E u, v \in Users :
          /\ get_user_position(u).withdrawn > 0
          /\ get_user_position(v).withdrawn = 0
          /\ get_user_position(v).deposited > 0

----------------------------------------------------------------------------
(* C17: in pool_contract.rs PoolInfo.total_deposited is the net principal   *)
(* held: it equals the sum over all users of deposited - withdrawn in every *)
(* reachable state, and a successful withdraw(u, a) lowers it by exactly a. *)
NetPrincipal ==
    SumOver(Users, [u \in Users |->
        get_user_position(u).deposited - get_user_position(u).withdrawn])

C17_Outcome ==
    (Position /\ Initialized) => PoolInfo.total_deposited = NetPrincipal

C17_Step ==
    (Position /\ last'.op = "withdraw" /\ last'.result = "ok") =>
        \A u \in Users, a \in Amounts, t \in Assets :
            withdraw(u, a, t, TRUE, FALSE) =>
                PoolInfo'.total_deposited = PoolInfo.total_deposited - a

C17_TotalIsNet == []C17_Outcome /\ [][C17_Step]_vars

C17_Witness ==
    /\ Position /\ Initialized
    /\ Did("withdraw", "ok")
    /\ PoolInfo.total_deposited = 1
    /\ \E u \in Users : get_user_position(u).withdrawn = 1
    /\ EverDeposited = 2

----------------------------------------------------------------------------
(* C18: solvency: custody starts at 0 and moves only by this contract's     *)
(* transfers, so in every reachable state the assets the pool holds cover   *)
(* the sum of the users' available balances, and a withdraw(u, a) with      *)
(* 0 < a <= available balance never fails with TransferFailed.  Custody is  *)
(* counted over every asset, and the withdrawal names the asset that makes  *)
(* up all of the custody.                                                   *)
TotalCustody == SumOver(Assets, custody)

TotalAvailable ==
    SumOver(Users, [u \in Users |-> available_balance(get_user_position(u))])

C18_AsStated ==
    (Position /\ Initialized) =>
        /\ TotalCustody >= TotalAvailable
        /\ \A u \in Users, a \in Amounts :
              (Has(persistent, u) /\ 0 < a /\ a <= available_balance(persistent[u])) =>
                  \A t \in Assets :
                      custody[t] = TotalCustody =>
                          withdraw_result(u, a, t, TRUE, FALSE) # "TransferFailed"

----------------------------------------------------------------------------
(* C20: pausing never locks funds: in every reachable state of a paused     *)
(* pool an authorized withdraw(u, a) with 0 < a <= available balance, whose *)
(* transfer the token carries out, succeeds; the step pays a out, lowers    *)
(* the balance by a and leaves the pool paused, so a depositor can take the *)
(* whole balance out without the pool being resumed.                        *)
Paused == Position /\ Initialized /\ ~PoolInfo.is_active

C20_Outcome ==
    Paused =>
        \A u \in Users, a \in Amounts, t \in Assets :
            (Has(persistent, u) /\ 0 < a /\ a <= available_balance(persistent[u])
                /\ TransferOk(t, Contract, a, FALSE)) =>
                    withdraw_result(u, a, t, TRUE, FALSE) = "ok"

C20_Step ==
    (Paused /\ last'.op = "withdraw" /\ last'.result = "ok") =>
        \A u \in Users, a \in Amounts, t \in Assets :
            withdraw(u, a, t, TRUE, FALSE) =>
                /\ get_user_balance(u)' = get_user_balance(u) - a
                /\ custody'[t] = custody[t] - a
                /\ ~PoolInfo'.is_active

C20_PauseKeepsWithdraw == []C20_Outcome /\ [][C20_Step]_vars

C20_Witness ==
    /\ Paused
    /\ Did("withdraw", "ok")
    /\ \E u \in Users :
          /\ get_user_position(u).deposited > 0
          /\ get_user_balance(u) = 0

----------------------------------------------------------------------------
(* C13: the pool holds one asset type, so that for every user and every     *)
(* asset the amount of that asset the user has withdrawn from custody never *)
(* exceeds the amount of that same asset the user has deposited.            *)
C13_AsStated ==
    \A u \in Users, t \in Assets : flows[u][t] >= 0

----------------------------------------------------------------------------
(* C19: the two variants agree on deposits and withdrawals: sent the same   *)
(* sequence of deposit(u, a) and withdraw(u, a) calls, any users and any    *)
(* integer amounts, each call succeeds in pool_contract.rs exactly when it  *)
(* succeeds in lib.rs, and after every call get_user_balance(u) is the      *)
(* same in both for every user.                                             *)
C19_AsStated ==
    (Initialized /\ mirror.initialized /\ last.op \in {"deposit", "withdraw"}) =>
        /\ (last.result = "ok") <=> (mirror.result = "ok")
        /\ \A u \in Users : get_user_balance(u) = m_get_user_balance(u)

====
